---- MODULE Spec2Model ----
(***************************************************************************)
(* The HTTP flow engine of libmproxy/protocol/http.py: HTTPHandler's       *)
(* per-connection loop (handle_messages / handle_flow), process_request,   *)
(* the upstream exchange with one reconnect (get_response_from_server),    *)
(* the CONNECT / TLS upgrade (ssl_upgrade) with the hooked reconnect       *)
(* (reconnect_http_proxy) and handle_error.                                *)
(*                                                                         *)
(* One client connection is modelled.  A handler run ends by c.close, by   *)
(* the ConnectionTypeChange signal, or by an exception that handle_flow    *)
(* does not catch.  After a ConnectionTypeChange the transport layer       *)
(* starts a new handler run on the same connection context c.              *)
(***************************************************************************)
EXTENDS Integers, Sequences, FiniteSets, TLC

(* ------------------------------ bounds --------------------------------- *)
\* requests the client sends on the connection, over all handler runs
MaxRequests == 2
\* handler runs on the connection (one more after each ConnectionTypeChange)
MaxSessions == 2

(* ------------------------------ values --------------------------------- *)
\* (host, port) pairs: two hosts, and one host on two ports
Addrs ==
    {[host |-> "a", port |-> 80], [host |-> "a", port |-> 443], [host |-> "b", port |-> 80]}
\* `None` where the code has no address (no server_conn, no host in the request)
NoAddr == [host |-> "", port |-> 0]
\* the forward proxy the connection handler is connected to when one is configured
ProxyAddr == [host |-> "proxy", port |-> 8080]

Schemes == {"http", "https"}
Codes == {200, 407}

\* The headers of a message that the code of this module reads or writes, each with
\* its value; "" where the message does not have the header.
NoHeaders ==
    [host |-> "", proxy_connection |-> "", keep_alive |-> "", connection |-> "",
     transfer_encoding |-> "", content_length |-> "", content_encoding |-> ""]
\* the headers of the requests the handler parses: a Host and a Proxy-Connection
\* header (what the handler does never depends on them; they show in what it writes)
RequestHeaders ==
    {[NoHeaders EXCEPT !.host = "h", !.proxy_connection = "keep-alive"]}

\* CONTENT_MISSING is modelled by the field `elided` of a message
NoRequest ==
    [form_in |-> "none", form_out |-> "none", scheme |-> "", addr |-> NoAddr,
     close |-> FALSE, elided |-> FALSE, headers |-> NoHeaders]
NoResponse == [code |-> 0, close |-> FALSE, elided |-> FALSE, src |-> "none"]
\* flow.error: Error("<code>: <message>"); `type` stands for the message, which names
\* the error that was caught
NoError == [set |-> FALSE, code |-> 0, type |-> "none"]

\* HTTPRequest.__init__: form_out defaults to form_in
HTTPRequest(form_in, scheme, addr, close, headers) ==
    [form_in |-> form_in, form_out |-> form_in, scheme |-> scheme, addr |-> addr,
     close |-> close, elided |-> FALSE, headers |-> headers]

\* The requests HTTPRequest.from_stream can return: host, port only in authority and
\* absolute form, scheme only in absolute form; `close` is what
\* http.connection_close will answer for the request's version and headers.
ParsedRequests ==
    {HTTPRequest(fm, "", NoAddr, cl, h) :
        fm \in {"asterisk", "origin"}, cl \in BOOLEAN, h \in RequestHeaders}
    \cup {HTTPRequest("authority", "", a, cl, h) :
            a \in Addrs, cl \in BOOLEAN, h \in RequestHeaders}
    \cup {HTTPRequest("absolute", s, a, cl, h) :
            s \in Schemes, a \in Addrs, cl \in BOOLEAN, h \in RequestHeaders}

HTTPResponse(code, close, elided, src) ==
    [code |-> code, close |-> close, elided |-> elided, src |-> src]

\* HTTPResponse.from_stream reads the body (include_content), so never CONTENT_MISSING
UpstreamResponses == {HTTPResponse(k, cl, FALSE, "upstream") : k \in Codes, cl \in BOOLEAN}
\* a Response object the inspector answers the `request` ask with
InspectorResponses ==
    {HTTPResponse(k, cl, el, "inspector") : k \in Codes, cl \in BOOLEAN, el \in BOOLEAN}

\* no reply yet
NoReply == [kind |-> "none", response |-> NoResponse]

\* exceptions
NoExc == [type |-> "none", code |-> 0, headers |-> ""]
Exc(type, code) == [type |-> type, code |-> code, headers |-> ""]
\* HttpAuthenticationError.__init__: the error carries the challenge headers
HttpAuthenticationError(auth_headers) ==
    [type |-> "HttpAuthenticationError", code |-> 0, headers |-> auth_headers]
\* the exception classes of handle_flow's except clause (NetLibDisconnect is a
\* NetLibError, HttpErrorConnClosed an HttpError)
Caught ==
    {"HttpAuthenticationError", "HttpError", "HttpErrorConnClosed", "ProxyError",
     "NetLibError", "NetLibDisconnect"}

(* ------------------------ messages: content, assembly ----------------- *)
\* message.content: None, the sentinel CONTENT_MISSING, or a string of bytes
None == [kind |-> "None", bytes |-> <<>>]
CONTENT_MISSING == [kind |-> "CONTENT_MISSING", bytes |-> <<>>]
Bytes(b) == [kind |-> "bytes", bytes |-> b]
\* `if self.content`: None, CONTENT_MISSING and the empty string are false
Present(content) == content.kind = "bytes" /\ content.bytes # <<>>
\* the content of a message of the handler, whose body is not modelled
ContentOf(m) == IF m.elided THEN CONTENT_MISSING ELSE None

\* utils.del_all(headers, names)
del_all(headers, names) ==
    [k \in DOMAIN headers |-> IF k \in names THEN "" ELSE headers[k]]

\* utils.hostport(scheme, host, port): the value of a synthesized Host header
hostport(scheme, addr) ==
    IF addr = NoAddr THEN "None:None"
    ELSE IF <<addr.port, scheme>> \in {<<80, "http">>, <<443, "https">>} THEN addr.host
    ELSE addr.host \o ":" \o ToString(addr.port)

\* HTTPRequest._assemble_headers, lines 398-417
AssembleHeadersUnstripped(headers, content, scheme, addr) ==
    LET h2 == IF headers.host = ""
              THEN [headers EXCEPT !.host = hostport(scheme, addr)]
              ELSE headers
    IN  IF Present(content)
        THEN [h2 EXCEPT !.content_length = ToString(Len(content.bytes))]
        ELSE IF headers.transfer_encoding # "" THEN [h2 EXCEPT !.content_length = "0"]
        ELSE h2
HTTPRequest_assemble_headers(headers, content, scheme, addr) ==
    LET h1 == del_all(headers,
                      {"proxy_connection", "keep_alive", "connection", "transfer_encoding"})
        h2 == IF h1.host = "" THEN [h1 EXCEPT !.host = hostport(scheme, addr)] ELSE h1
    IN  IF Present(content)
        THEN [h2 EXCEPT !.content_length = ToString(Len(content.bytes))]
        ELSE IF headers.transfer_encoding # "" THEN [h2 EXCEPT !.content_length = "0"]
        ELSE h2

\* HTTPResponse._assemble_headers, lines 657-671
HTTPResponse_assemble_headers(headers, content) ==
    LET h1 == del_all(headers, {"proxy_connection", "transfer_encoding"})
    IN  IF Present(content)
        THEN [h1 EXCEPT !.content_length = ToString(Len(content.bytes))]
        ELSE IF headers.transfer_encoding # "" THEN [h1 EXCEPT !.content_length = "0"]
        ELSE h1

(* ------------------------------ state ---------------------------------- *)
VARIABLES
    pc,          \* position of the handler
    c,           \* the connection context self.c
    config,      \* c.config: forward_proxy, authenticator
    flow,        \* the HTTPFlow of the current handle_flow call
    i,           \* loop index of get_response_from_server
    exc,         \* the exception being propagated
    result,      \* the value handle_flow returned
    log,         \* events of the current flow, in order
    client_out,  \* what the current flow wrote to c.client_conn.wfile
    server_out,  \* what the current flow wrote to c.server_conn.wfile
    hook_resp,   \* status the hooked reconnect read from the upstream proxy (0: none)
    request_reply,   \* handle_flow's local: the reply to the `request` ask
    response_reply,  \* handle_flow's local: the reply to the `response` ask
    c0,          \* the connection context as it was when the flow was created
    parsed,      \* the request as from_stream returned it
    consumed,    \* requests parsed from the client so far
    sessions,    \* handler runs started so far
    msg,         \* a message outside the handler, and what was done with it
    heap         \* flows and their children outside the handler

vars ==
    <<pc, c, config, flow, i, exc, result, log, client_out, server_out, hook_resp,
      request_reply, response_reply, c0, parsed, consumed, sessions, msg, heap>>

\* The part of the state the handler's methods read and write, passed through the
\* operators below the way `self` is passed through the methods.
Frame ==
    [c |-> c, flow |-> flow, exc |-> exc, log |-> log, client_out |-> client_out,
     server_out |-> server_out, hook_resp |-> hook_resp]

SetFrame(f) ==
    /\ c' = f.c
    /\ flow' = f.flow
    /\ exc' = f.exc
    /\ log' = f.log
    /\ client_out' = f.client_out
    /\ server_out' = f.server_out
    /\ hook_resp' = f.hook_resp

Ev(f, e) == [f EXCEPT !.log = Append(@, e)]
Raise(f, x) == [f EXCEPT !.exc = x]
Raised(f) == f.exc # NoExc
\* headers: the extra headers of a synthetic error response ("" for none)
ClientWroteWith(f, kind, code, src, headers) ==
    [f EXCEPT !.client_out =
        Append(@, [kind |-> kind, code |-> code, src |-> src, headers |-> headers])]
ClientWrote(f, kind, code, src) == ClientWroteWith(f, kind, code, src, "")
\* what: "request" for the flow's request, "connect" for the replayed CONNECT
\* r: the request whose _assemble() is written
ServerWrote(f, what, r) ==
    [f EXCEPT !.server_out =
        Append(@, [what |-> what, form |-> r.form_out, to |-> f.c.server_addr,
                   target |-> r.addr,
                   headers |-> HTTPRequest_assemble_headers(r.headers, ContentOf(r),
                                                            r.scheme, r.addr)])]

\* The connection contexts a handler can start with: a regular proxy has no server
\* connection yet and a plain client connection; a transparent proxy knows its
\* destination and may have terminated TLS already; with a forward proxy the
\* server connection targets that proxy.
InitialContexts ==
    {[mode |-> "regular", close |-> FALSE, client_ssl |-> FALSE, server_addr |-> NoAddr,
      server_ssl |-> FALSE, hooks |-> <<>>]}
    \cup {[mode |-> "transparent", close |-> FALSE, client_ssl |-> s, server_addr |-> a,
           server_ssl |-> s, hooks |-> <<>>] : s \in BOOLEAN, a \in Addrs}
    \cup {[mode |-> m, close |-> FALSE, client_ssl |-> FALSE, server_addr |-> ProxyAddr,
           server_ssl |-> FALSE, hooks |-> <<>>] : m \in {"regular", "upstream"}}

\* the value of a variable that the specification at hand does not use
Unused == "unused"

Init ==
    /\ pc = "handle_flow"
    /\ config \in [forward_proxy : BOOLEAN, authenticator : BOOLEAN]
    /\ c \in {x \in InitialContexts : (x.server_addr = ProxyAddr) <=> config.forward_proxy}
    /\ flow = [request |-> NoRequest, response |-> NoResponse, error |-> NoError]
    /\ i = 0
    /\ exc = NoExc
    /\ result = FALSE
    /\ log = <<>>
    /\ client_out = <<>>
    /\ server_out = <<>>
    /\ hook_resp = 0
    /\ request_reply = NoReply
    /\ response_reply = "none"
    /\ c0 = c
    /\ parsed = NoRequest
    /\ consumed = 0
    /\ sessions = 1
    /\ msg = Unused
    /\ heap = Unused

(* ----------------------- collaborators (interfaces) -------------------- *)
\* c.establish_server_connection(addr): a new plain server connection to addr, or a
\* proxy error when the connection cannot be made
establish_server_connection(f, addr, ok) ==
    LET g == Ev(f, "establish") IN
    IF ok
    THEN [g EXCEPT !.c.server_addr = addr, !.c.server_ssl = FALSE]
    ELSE Raise(g, Exc("ProxyError", 502))

\* c.establish_ssl(server, client): TLS on the named sides, or a transport error
establish_ssl(f, server, client, ok) ==
    LET g == Ev(f, IF server /\ client THEN "establish_ssl_both"
                   ELSE IF server THEN "establish_ssl_server"
                   ELSE "establish_ssl_client") IN
    IF ok
    THEN [g EXCEPT !.c.server_ssl = (@ \/ server), !.c.client_ssl = (@ \/ client)]
    ELSE Raise(g, Exc("NetLibError", 0))

\* the connection handler's own server_reconnect(no_ssl): a new connection to the
\* same address, with TLS again unless no_ssl
original_reconnect_func(f, no_ssl, ok) ==
    LET g == Ev(f, IF no_ssl THEN "reconnect_no_ssl" ELSE "reconnect") IN
    IF ok
    THEN [g EXCEPT !.c.server_ssl = (@ /\ ~no_ssl)]
    ELSE Raise(g, Exc("ProxyError", 502))

(* ------------------------------ HTTPHandler ---------------------------- *)
\* authenticate: only called in regular mode; `ok` is the authenticator's verdict
\* what the authenticator's auth_challenge_headers() returns
AuthChallenge == "Proxy-Authenticate"

authenticate(f, ok) ==
    IF config.authenticator
    THEN IF ok
         THEN Ev(f, "authenticated")
         ELSE Raise(Ev(f, "auth_failed"), HttpAuthenticationError(AuthChallenge))
    ELSE f

\* the status the hooked reconnect accepts from the upstream proxy
HookAcceptsAny(code) == TRUE
HookAccepts(code) == code = 200

\* the error reconnect_http_proxy raises for a refused CONNECT: ProxyError(resp.code, ..)
HookError(code) == Exc("ProxyError", code)

\* reconnect_http_proxy, the closure ssl_upgrade installs as c.server_reconnect.
\* env.conn: the original reconnect succeeds; env.write: the write and flush of the
\* CONNECT succeed; env.read: 0 for a disconnect while reading, else the status read;
\* env.tls: establish_ssl succeeds.
reconnect_http_proxy(f, upstream_request, env) ==
    LET f1 == original_reconnect_func(Ev(f, "hooked_reconnect"), TRUE, env.conn)
        f2 == ServerWrote(Ev(f1, "hook_write"), "connect", upstream_request)
        f3 == Ev(f2, "hook_flush")
        f4 == [Ev(f3, "hook_read") EXCEPT !.hook_resp = env.read]
    IN  IF Raised(f1) THEN f1
        ELSE IF ~env.write THEN Raise(f2, Exc("NetLibDisconnect", 0))
        ELSE IF env.read = 0 THEN Raise(f3, Exc("NetLibDisconnect", 0))
        ELSE IF ~HookAccepts(env.read) THEN Raise(f4, HookError(env.read))
        ELSE establish_ssl(f4, TRUE, FALSE, env.tls)

\* c.server_reconnect(): the connection handler's reconnect until ssl_upgrade has
\* replaced it.  A hook installed over a hook calls the inner closure with
\* no_ssl=True, which the closure does not accept: a TypeError.
server_reconnect(f, env) ==
    IF Len(f.c.hooks) = 0 THEN original_reconnect_func(f, FALSE, env.conn)
    ELSE IF Len(f.c.hooks) = 1 THEN reconnect_http_proxy(f, f.c.hooks[1], env)
    ELSE Raise(Ev(f, "hooked_reconnect"), Exc("TypeError", 0))

\* what ssl_upgrade does before it raises: the mode, then TLS on both sides
UpgradeSteps(f, ok) ==
    establish_ssl(Ev([f EXCEPT !.c.mode = "transparent"], "mode_transparent"),
                  TRUE, TRUE, ok)

\* ssl_upgrade(upstream_request): hooked is FALSE for the call without argument
ssl_upgrade(f, hooked, upstream_request, ok) ==
    LET g == UpgradeSteps(Ev(f, "ssl_upgrade"), ok)
        h == IF hooked
             THEN Ev([g EXCEPT !.c.hooks = Append(@, upstream_request)], "hook_installed")
             ELSE g
    IN  IF Raised(g) THEN g ELSE Raise(h, Exc("ConnectionTypeChange", 0))

\* line 968
directly_addressed_always(f) == f.c.mode = "regular"
directly_addressed_at_mitmproxy(f) == f.c.mode = "regular" /\ ~config.forward_proxy

\* lines 987-988: the server connection has to be (re-)established
NeedsConnectionIfNone(f, addr) == f.c.server_addr = NoAddr
NeedsConnection(f, addr) == f.c.server_addr = NoAddr \/ f.c.server_addr # addr

\* the direct CONNECT of process_request, lines 970-977
ConnectDirectReplyFirst(f, env) ==
    LET f1 == ClientWrote(Ev(f, "client_write_200"), "established", 200, "proxy")
        f2 == establish_server_connection(Ev(f1, "client_flush_200"),
                                          f.flow.request.addr, env.conn)
    IN  IF ~env.client THEN Raise(Ev(f, "client_write_200"), Exc("NetLibDisconnect", 0))
        ELSE IF Raised(f2) THEN f2
        ELSE ssl_upgrade(f2, FALSE, NoRequest, env.tls)
ConnectDirect(f, env) ==
    LET f1 == establish_server_connection(f, f.flow.request.addr, env.conn)
        f2 == Ev(f1, "client_write_200")
        f3 == Ev(ClientWrote(f2, "established", 200, "proxy"), "client_flush_200")
    IN  IF Raised(f1) THEN f1
        ELSE IF ~env.client THEN Raise(f2, Exc("NetLibDisconnect", 0))
        ELSE ssl_upgrade(f3, FALSE, NoRequest, env.tls)

\* line 983: the schemes of an absolute-form request that are not rejected
SchemeAllowedAny(scheme) == TRUE
SchemeAllowed(scheme) == scheme = "http"

\* lines 979-991
RegularForms(f, env) ==
    LET r == f.flow.request IN
    IF r.form_in = "authority" THEN f
    ELSE IF r.form_in = "absolute"
    THEN IF ~SchemeAllowed(r.scheme) THEN Raise(f, Exc("HttpError", 400))
         ELSE IF ~config.forward_proxy
         THEN LET g == [f EXCEPT !.flow.request.form_out = "origin"] IN
              IF NeedsConnection(g, r.addr)
              THEN establish_server_connection(g, r.addr, env.conn)
              ELSE g
         ELSE f
    ELSE Raise(f, Exc("HttpError", 400))

\* line 961: the modes in which the authenticator is consulted
AuthenticatesAlways(f) == TRUE
Authenticates(f) == f.c.mode = "regular"

process_request(f, env) ==
    LET f0 == Ev(f, "process_request")
        f1 == IF Authenticates(f0) THEN authenticate(f0, env.auth) ELSE f0
        r == f.flow.request
    IN  IF Raised(f1) THEN f1
        ELSE IF r.form_in = "authority" /\ f1.c.client_ssl
        THEN Raise(f1, Exc("HttpError", 502))
        ELSE IF r.form_in = "authority" /\ directly_addressed_at_mitmproxy(f1)
        THEN ConnectDirect(f1, env)
        ELSE IF f1.c.mode = "regular" THEN RegularForms(f1, env)
        ELSE f1

\* send_error: the synthetic response; a failure is swallowed by handle_error
send_error(f, code, headers, ok) ==
    LET g == Ev(f, "send_error") IN
    IF ok THEN ClientWroteWith(g, "error", code, "proxy", headers)
    ELSE Ev(g, "send_error_failed")

\* the code handle_error assigns, lines 879-886 (0: none)
ErrorCodeNoTransport(error) ==
    IF error.type = "HttpAuthenticationError" THEN 407
    ELSE IF error.type \in {"HttpError", "HttpErrorConnClosed", "ProxyError"} THEN error.code
    ELSE 0
ErrorCode(error) ==
    IF error.type = "HttpAuthenticationError" THEN 407
    ELSE IF error.type \in {"HttpError", "HttpErrorConnClosed", "ProxyError"} THEN error.code
    ELSE IF error.type \in {"NetLibError", "NetLibDisconnect"} THEN 502
    ELSE 0

\* the extra headers handle_error passes to send_error, lines 879-881
ErrorHeaders(error) ==
    IF error.type = "HttpAuthenticationError" THEN error.headers ELSE ""

handle_error(f, error, ok) ==
    LET code == ErrorCode(error)
        f1 == Ev([f EXCEPT !.flow.error =
                                [set |-> TRUE, code |-> code, type |-> error.type],
                            !.exc = NoExc],
                 "flow_error")
        f2 == Ev(f1, "ask_error")
    IN  IF code # 0 THEN send_error(f2, code, ErrorHeaders(error), ok) ELSE f2

(* ------------------------------ actions -------------------------------- *)
\* where control goes when frame f leaves a step of handle_flow: on to `next`, into
\* handle_flow's except clause, or out of handle_messages with the exception
Dispatch(f, next) ==
    IF ~Raised(f) THEN next
    ELSE IF f.exc.type \in Caught THEN "except"
    ELSE IF f.exc.type = "ConnectionTypeChange" THEN "type_change"
    ELSE "crashed"

\* line 847
IsKillOnly(reply) == reply.kind = "KILL"
IsKill(reply) == reply.kind \in {"None", "KILL"}

\* line 850
IsResponseNever(reply) == FALSE
IsResponse(reply) == reply.kind = "Response"

\* the inspector's replies to the `request` ask: None, KILL, a Response, or the
\* request, possibly mutated (here: its content made CONTENT_MISSING)
RequestReplies ==
    {[kind |-> k, response |-> NoResponse] : k \in {"None", "KILL", "request", "request_elided"}}
    \cup {[kind |-> "Response", response |-> r] : r \in InspectorResponses}

\* the inspector's replies to the `response` ask
ResponseReplies == {"None", "KILL", "response", "response_elided"}

\* handle_flow, lines 839-843: a new flow, and the request parsed from the client.
\* The client stream is at EOF where the request line should start (get_line, lines
\* 26-30: also after one blank line), holds a malformed request, or holds a request.
from_stream ==
    /\ pc = "handle_flow"
    /\ LET f == [Frame EXCEPT
                    !.flow = [request |-> NoRequest, response |-> NoResponse,
                              error |-> NoError],
                    !.log = <<>>, !.client_out = <<>>, !.server_out = <<>>,
                    !.hook_resp = 0]
       IN  \/ /\ SetFrame(Raise(Ev(f, "eof"), Exc("NetLibDisconnect", 0)))
              /\ pc' = "except"
              /\ parsed' = NoRequest
              /\ UNCHANGED consumed
           \/ /\ consumed < MaxRequests
              /\ SetFrame(Raise(f, Exc("HttpError", 400)))
              /\ pc' = "except"
              /\ parsed' = NoRequest
              /\ consumed' = consumed + 1
           \/ /\ consumed < MaxRequests
              /\ \E r \in ParsedRequests :
                    /\ SetFrame(Ev([f EXCEPT !.flow.request = r], "parsed"))
                    /\ parsed' = r
              /\ pc' = "ask_request"
              /\ consumed' = consumed + 1
    /\ request_reply' = NoReply
    /\ response_reply' = "none"
    /\ c0' = c
    /\ UNCHANGED <<config, i, result, sessions, msg, heap>>

\* handle_flow, lines 845-853: the `request` ask and what its reply decides
ask_request ==
    /\ pc = "ask_request"
    /\ \E reply \in RequestReplies :
        LET f == Ev(Frame, "ask_request") IN
        /\ request_reply' = reply
        /\ IF IsKill(reply)
           THEN /\ SetFrame(f)
                /\ result' = FALSE
                /\ pc' = "return"
           ELSE IF IsResponse(reply)
           THEN /\ SetFrame([f EXCEPT !.flow.response = reply.response])
                /\ pc' = "ask_response"
                /\ UNCHANGED result
           ELSE /\ SetFrame([f EXCEPT !.flow.request.elided =
                                        (reply.kind = "request_elided")])
                /\ pc' = "process_request"
                /\ UNCHANGED result
    /\ UNCHANGED <<config, i, response_reply, c0, parsed, consumed, sessions, msg, heap>>

ProcessEnvs == [auth : BOOLEAN, conn : BOOLEAN, client : BOOLEAN, tls : BOOLEAN]

\* handle_flow, line 853
do_process_request ==
    /\ pc = "process_request"
    /\ \E env \in ProcessEnvs :
        LET f == process_request(Frame, env) IN
        /\ SetFrame(f)
        /\ pc' = Dispatch(f, "get_response")
    /\ UNCHANGED <<config, i, result, request_reply, response_reply, c0, parsed, consumed, sessions, msg, heap>>

\* get_response_from_server, line 814: request._assemble() fails on CONTENT_MISSING
assemble_request ==
    /\ pc = "get_response"
    /\ LET f == IF flow.request.elided
                THEN Raise(Frame, Exc("Exception", 0))
                ELSE Frame
       IN  /\ SetFrame(f)
           /\ pc' = Dispatch(f, "send")
    /\ i' = 0
    /\ UNCHANGED <<config, result, request_reply, response_reply, c0, parsed, consumed, sessions, msg, heap>>

\* line 816: range(2)
Attempts == 2

\* line 824
RetryAlways(n) == TRUE
RetryAllowed(n) == n < 1

\* the errors the loop of get_response_from_server catches, line 822
Retried == {"NetLibDisconnect", "HttpErrorConnClosed"}

\* what the server side does to one attempt: the write or the flush hits a closed
\* connection, the read ends in a disconnect, a closed connection or a malformed
\* response, or a response is read
SendOutcomes ==
    {[at |-> a, response |-> NoResponse] :
        a \in {"write", "flush", "read_disconnect", "read_closed", "read_invalid"}}
    \cup {[at |-> "ok", response |-> r] : r \in UpstreamResponses}

\* lines 817-821: the steps of an attempt that are inside the try block
GuardedWriteOnly == {"write", "flush"}
Guarded == {"write", "flush", "read_disconnect", "read_closed", "read_invalid"}

SendError(o) ==
    IF o.at \in {"write", "flush", "read_disconnect"} THEN Exc("NetLibDisconnect", 0)
    ELSE IF o.at = "read_closed" THEN Exc("HttpErrorConnClosed", 502)
    ELSE Exc("HttpError", 502)

\* get_response_from_server, lines 816-836: one pass of the loop body
send_attempt ==
    /\ pc = "send"
    /\ i < Attempts
    /\ \E o \in SendOutcomes :
        LET r == flow.request
            f1 == ServerWrote(Ev(Frame, "server_write"), "request", r)
            f2 == IF o.at = "write" THEN f1 ELSE Ev(f1, "server_flush")
            f3 == Ev([f2 EXCEPT !.flow.response = o.response], "server_read")
        IN  IF o.at = "ok"
            THEN /\ SetFrame(f3)
                 /\ pc' = "ask_response"
            ELSE IF o.at \in Guarded /\ SendError(o).type \in Retried
            THEN IF RetryAllowed(i)
                 THEN /\ SetFrame(Ev(f2, "server_error"))
                      /\ pc' = "reconnect"
                 ELSE /\ SetFrame(Raise(Ev(f2, "server_error"), SendError(o)))
                      /\ pc' = "except"
            ELSE /\ SetFrame(Raise(f2, SendError(o)))
                 /\ pc' = "except"
    /\ UNCHANGED <<config, i, result, request_reply, response_reply, c0, parsed, consumed, sessions, msg, heap>>

ReconnectEnvs == [conn : BOOLEAN, write : BOOLEAN, read : {0} \cup Codes, tls : BOOLEAN]

\* get_response_from_server, line 834, and the next pass of the loop; when the loop
\* runs out the function returns None and line 856 fails on it
do_server_reconnect ==
    /\ pc = "reconnect"
    /\ \E env \in ReconnectEnvs :
        LET f == server_reconnect(Ev(Frame, "server_reconnect"), env)
            g == IF Raised(f) THEN f
                 ELSE IF i + 1 >= Attempts
                 THEN Raise(Ev(f, "reconnected"), Exc("AttributeError", 0))
                 ELSE Ev(f, "reconnected")
        IN  /\ SetFrame(g)
            /\ pc' = Dispatch(g, "send")
    /\ i' = i + 1
    /\ UNCHANGED <<config, result, request_reply, response_reply, c0, parsed, consumed, sessions, msg, heap>>

\* handle_flow, lines 856-860: the log line assembles the response, then the
\* `response` ask
ask_response ==
    /\ pc = "ask_response"
    /\ IF flow.response.elided
       THEN /\ SetFrame(Raise(Frame, Exc("Exception", 0)))
            /\ pc' = "crashed"
            /\ UNCHANGED <<result, response_reply>>
       ELSE \E reply \in ResponseReplies :
            LET f == Ev(Frame, "ask_response") IN
            /\ response_reply' = reply
            /\ IF IsKill([kind |-> reply])
               THEN /\ SetFrame(f)
                    /\ result' = FALSE
                    /\ pc' = "return"
               ELSE /\ SetFrame([f EXCEPT !.flow.response.elided =
                                            (reply = "response_elided")])
                    /\ pc' = "client_write"
                    /\ UNCHANGED result
    /\ UNCHANGED <<config, i, request_reply, c0, parsed, consumed, sessions, msg, heap>>

\* lines 867-868
ConnectionCloseRequest(f) == f.flow.request.close
ConnectionClose(f) == f.flow.request.close \/ f.flow.response.close

\* handle_flow, lines 862-873: the response is assembled and written to the client,
\* then the connection ends, is upgraded, or goes on to the next request
client_write ==
    /\ pc = "client_write"
    /\ \E env \in [client : BOOLEAN, tls : BOOLEAN] :
        LET r == flow.response
            f1 == Ev(Frame, "client_write")
            f2 == Ev(ClientWrote(f1, "response", r.code, r.src), "client_flush")
            f3 == ssl_upgrade(f2, TRUE, flow.request, env.tls)
        IN  IF r.elided
            THEN /\ SetFrame(Raise(Frame, Exc("Exception", 0)))
                 /\ pc' = "crashed"
                 /\ UNCHANGED result
            ELSE IF ~env.client
            THEN /\ SetFrame(Raise(f1, Exc("NetLibDisconnect", 0)))
                 /\ pc' = "except"
                 /\ UNCHANGED result
            ELSE IF ConnectionClose(f2)
            THEN /\ SetFrame(f2)
                 /\ result' = FALSE
                 /\ pc' = "return"
            ELSE IF flow.request.form_in = "authority"
            THEN /\ SetFrame(f3)
                 /\ pc' = Dispatch(f3, "return")
                 /\ UNCHANGED result
            ELSE /\ SetFrame(f2)
                 /\ result' = TRUE
                 /\ pc' = "return"
    /\ UNCHANGED <<config, i, request_reply, response_reply, c0, parsed, consumed, sessions, msg, heap>>

\* line 876: what handle_flow returns after handle_error
ErrorReturnTrue == TRUE
ErrorReturn == FALSE

\* handle_flow, lines 874-876: the except clause
do_handle_error ==
    /\ pc = "except"
    /\ \E ok \in BOOLEAN : SetFrame(handle_error(Frame, exc, ok))
    /\ result' = ErrorReturn
    /\ pc' = "return"
    /\ UNCHANGED <<config, i, request_reply, response_reply, c0, parsed, consumed, sessions, msg, heap>>

\* line 809
LoopAlways(r) == TRUE
LoopContinues(r) == r

\* handle_messages, lines 808-811
handle_messages ==
    /\ pc = "return"
    /\ IF LoopContinues(result)
       THEN /\ pc' = "handle_flow"
            /\ UNCHANGED c
       ELSE /\ pc' = "closed"
            /\ c' = [c EXCEPT !.close = TRUE]
    /\ UNCHANGED <<config, flow, i, exc, result, log, client_out, server_out, hook_resp,
                   request_reply, response_reply, c0, parsed, consumed, sessions, msg, heap>>

\* The ConnectionTypeChange has left handle_messages: the connection handler picks
\* the protocol of the upgraded connection and runs its handler on the same context.
next_handler ==
    /\ pc = "type_change"
    /\ sessions < MaxSessions
    /\ pc' = "handle_flow"
    /\ exc' = NoExc
    /\ flow' = [request |-> NoRequest, response |-> NoResponse, error |-> NoError]
    /\ log' = <<>>
    /\ client_out' = <<>>
    /\ server_out' = <<>>
    /\ hook_resp' = 0
    /\ request_reply' = NoReply
    /\ response_reply' = "none"
    /\ c0' = c
    /\ parsed' = NoRequest
    /\ result' = FALSE
    /\ i' = 0
    /\ sessions' = sessions + 1
    /\ UNCHANGED <<c, config, consumed, msg, heap>>

Next ==
    \/ from_stream
    \/ ask_request
    \/ do_process_request
    \/ assemble_request
    \/ send_attempt
    \/ do_server_reconnect
    \/ ask_response
    \/ client_write
    \/ do_handle_error
    \/ handle_messages
    \/ next_handler

Spec == Init /\ [][Next]_vars

(* ----------------------- messages outside the handler ------------------ *)
\* the variables of the handler, which the specifications below leave alone
handler_vars ==
    <<pc, c, config, flow, i, exc, result, log, client_out, server_out, hook_resp,
      request_reply, response_reply, c0, parsed, consumed, sessions>>
NoHandler ==
    /\ pc = Unused /\ c = Unused /\ config = Unused /\ flow = Unused /\ i = Unused
    /\ exc = Unused /\ result = Unused /\ log = Unused /\ client_out = Unused
    /\ server_out = Unused /\ hook_resp = Unused /\ request_reply = Unused
    /\ response_reply = Unused /\ c0 = Unused /\ parsed = Unused
    /\ consumed = Unused /\ sessions = Unused

\* encoding.ENCODINGS
ENCODINGS == {"identity", "gzip", "deflate"}
\* A codec is modelled by the mark it puts in front of the bytes it encodes.
Marker(e) == IF e = "gzip" THEN "gz" ELSE "df"
\* encoding.encode(e, content), for an e of ENCODINGS and a string of bytes
encoding_encode(e, b) == IF e = "identity" THEN Bytes(b) ELSE Bytes(<<Marker(e)>> \o b)
\* encoding.decode(e, content): None for bytes the codec cannot decode
encoding_decode(e, b) ==
    IF e = "identity" THEN Bytes(b)
    ELSE IF b # <<>> /\ Head(b) = Marker(e) THEN Bytes(Tail(b))
    ELSE None

\* HTTPMessage.decode, lines 159-175 (the returned flag is not modelled)
decode(m) ==
    LET ce == m.headers.content_encoding
        data == encoding_decode(ce, m.content.bytes)
    IN  IF ~Present(m.content) \/ ce \notin ENCODINGS THEN m
        ELSE IF data = None THEN m
        ELSE [m EXCEPT !.content = data, !.headers.content_encoding = ""]

\* HTTPMessage.encode, lines 177-184; a codec other than identity fails on a
\* content that is not a string
encode(m, e) ==
    IF m.content.kind = "bytes"
    THEN [m EXCEPT !.content = encoding_encode(e, m.content.bytes),
                   !.headers.content_encoding = e]
    ELSE IF e = "identity" THEN [m EXCEPT !.headers.content_encoding = e]
    ELSE [m EXCEPT !.exc = "TypeError"]

\* decoded.__init__, lines 44-50: self.ce ("" for None)
decoded_ce(m) ==
    IF m.headers.content_encoding \in ENCODINGS THEN m.headers.content_encoding ELSE ""

\* the headers and contents of the messages the pure operations are applied to
MessageHeaders ==
    {[NoHeaders EXCEPT !.content_encoding = ce, !.content_length = cl,
                       !.transfer_encoding = te, !.connection = cn, !.host = h,
                       !.proxy_connection = pk, !.keep_alive = pk] :
        ce \in ENCODINGS \cup {"", "br"}, cl \in {"", "0", "2"},
        te \in {"", "chunked"}, cn \in {"", "close"}, h \in {"", "h"},
        pk \in {"", "keep-alive"}}
MessageContents ==
    {None, CONTENT_MISSING}
    \cup {Bytes(b) : b \in {<<>>, <<"x">>, <<"gz", "x">>, <<"df", "x">>, <<"gz">>}}

\* what _assemble returns: first line, header block and body
NoOutput == [first_line |-> "", headers |-> NoHeaders, body |-> <<>>]
\* the forms a request is sent in, lines 384-393 ("" for a response)
Forms == {"asterisk", "origin", "authority", "absolute"}

\* a message as constructed, with nothing done to it yet; `pre` is the message as
\* it was when _assemble was last called, `outs` what each call of _assemble gave
NewMessage(kind, form_out, headers, content) ==
    [kind |-> kind, form_out |-> form_out, headers |-> headers, content |-> content,
     stage |-> "new", ce |-> "", exc |-> "",
     before |-> [headers |-> headers, content |-> content],
     pre |-> [form_out |-> form_out, headers |-> headers, content |-> content],
     out |-> NoOutput, outs |-> <<>>]

MessageInit ==
    /\ NoHandler
    /\ heap = Unused
    /\ msg \in {NewMessage("request", fm, h, b) :
                    fm \in Forms, h \in MessageHeaders, b \in MessageContents}
               \cup {NewMessage("response", "", h, b) :
                        h \in MessageHeaders, b \in MessageContents}

\* decoded.__init__ and __enter__, lines 44-54
decoded_enter ==
    /\ msg.stage = "new"
    /\ LET ce == decoded_ce(msg)
           m == IF ce # "" THEN decode(msg) ELSE msg
       IN  msg' = [m EXCEPT !.ce = ce, !.stage = "entered"]
    /\ UNCHANGED <<handler_vars, heap>>

\* decoded.__exit__, lines 56-58, after a block that did nothing to the message
decoded_exit ==
    /\ msg.stage = "entered"
    /\ LET m == IF msg.ce # "" THEN encode(msg, msg.ce) ELSE msg
       IN  msg' = [m EXCEPT !.stage = "exited"]
    /\ UNCHANGED <<handler_vars, heap>>

\* the method, scheme, address, path and version of the requests among these
\* messages, and the status line of the responses
MessageMethod == "GET"
MessageScheme == "http"
MessageAddr == [host |-> "a", port |-> 80]
MessagePath == "/x"
MessageVersion == "HTTP/1.1"
StatusLine == "HTTP/1.1 200 OK"

\* HTTPRequest._assemble_first_line, lines 381-396, for form = None
HTTPRequest_assemble_first_line(form_out) ==
    IF form_out \in {"asterisk", "origin"}
    THEN MessageMethod \o " " \o MessagePath \o " " \o MessageVersion
    ELSE IF form_out = "authority"
    THEN MessageMethod \o " " \o MessageAddr.host \o ":" \o ToString(MessageAddr.port)
            \o " " \o MessageVersion
    ELSE MessageMethod \o " " \o MessageScheme \o "://" \o MessageAddr.host \o ":"
            \o ToString(MessageAddr.port) \o MessagePath \o " " \o MessageVersion

\* lines 399 and 658, `headers = self.headers.copy()`: the header map that
\* _assemble_headers changes is a copy, and the message keeps its own
KeptHeadersInPlace(own, changed) == changed
KeptHeaders(own, changed) == own

\* calls of _assemble on one message
MaxAssemblies == 2

\* _assemble, lines 422-435 and 676-689: the emitted first line, headers and body
assemble ==
    /\ msg.stage \in {"new", "exited", "assembled"}
    /\ msg.exc = ""
    /\ Len(msg.outs) < MaxAssemblies
    /\ IF msg.content = CONTENT_MISSING
       THEN msg' = [msg EXCEPT !.exc = "Exception", !.stage = "failed"]
       ELSE LET emitted ==
                    IF msg.kind = "request"
                    THEN HTTPRequest_assemble_headers(msg.headers, msg.content,
                                                      MessageScheme, MessageAddr)
                    ELSE HTTPResponse_assemble_headers(msg.headers, msg.content)
                output ==
                    [first_line |-> IF msg.kind = "request"
                                    THEN HTTPRequest_assemble_first_line(msg.form_out)
                                    ELSE StatusLine,
                     headers |-> emitted,
                     body |-> IF Present(msg.content) THEN msg.content.bytes ELSE <<>>]
            IN  msg' =
                    [msg EXCEPT
                        !.stage = "assembled",
                        !.pre = [form_out |-> msg.form_out, headers |-> msg.headers,
                                 content |-> msg.content],
                        !.headers = KeptHeaders(msg.headers, emitted),
                        !.out = output,
                        !.outs = Append(@, output)]
    /\ UNCHANGED <<handler_vars, heap>>

MessageNext ==
    \/ decoded_enter
    \/ decoded_exit
    \/ assemble

MessageSpec == MessageInit /\ [][MessageNext]_vars

(* ----------------------- parsing a request ----------------------------- *)
\* A request line is its method, its target as a string of tokens, and its version
\* ("" where the line has fewer than three parts).
Methods == {"GET", "OPTIONS", "CONNECT", "connect"}
Versions == {"HTTP/1.0", "HTTP/1.1", ""}
Targets ==
    {<<"*">>, <<"*", "x">>, <<"/">>, <<"/", "x">>, <<"/", "\\xe9">>,
     <<"a", ":", "80">>, <<"a">>, <<"a", ":", "x">>,
     <<"http", "://", "a", "/", "x">>, <<"https", "://", "a", ":", "443">>,
     <<"ftp", "://", "a", "/">>, <<"http", "://", "a", "\\xe9">>}
RequestLines == [method : Methods, target : Targets, version : Versions]

\* str.upper() on the methods above
upper(method) == IF method = "connect" THEN "CONNECT" ELSE method
\* netlib.utils.isascii on a target
isascii(target) == \A k \in DOMAIN target : target[k] # "\\xe9"
\* int(port) on the port tokens above (0: not a number)
PortNumber(t) == IF t = "80" THEN 80 ELSE IF t = "443" THEN 443 ELSE 0
\* what the parsers return for a line they do not accept, and the fields of a
\* request that from_stream leaves None
NoParts == [ok |-> FALSE, scheme |-> "", host |-> "", port |-> 0, path |-> <<>>]

\* http.parse_init: method, target and version, or None
parse_init(line) == line.version # ""
\* http.parse_init_connect: host and port of a target host:port
parse_init_connect(line) ==
    LET t == line.target IN
    IF /\ parse_init(line) /\ upper(line.method) = "CONNECT"
       /\ Len(t) = 3 /\ t[2] = ":" /\ PortNumber(t[3]) # 0
    THEN [ok |-> TRUE, scheme |-> "", host |-> t[1], port |-> PortNumber(t[3]),
          path |-> <<>>]
    ELSE NoParts
\* http.parse_init_proxy: scheme, host, port and path of a target
\* scheme://host[:port][/path], the port defaulting by scheme and the path to /
parse_init_proxy(line) ==
    LET t == line.target
        rest == SubSeq(t, 4, Len(t))
        hasport == Len(rest) >= 2 /\ rest[1] = ":"
        path == IF hasport THEN SubSeq(rest, 3, Len(rest)) ELSE rest
        port == IF hasport THEN PortNumber(rest[2])
                ELSE IF t[1] = "https" THEN 443 ELSE 80
    IN  IF /\ parse_init(line) /\ Len(t) >= 3
           /\ t[1] \in {"http", "https"} /\ t[2] = "://" /\ t[3] \notin {":", "/", "://"}
           /\ port # 0
           /\ (path = <<>> \/ Head(path) = "/")
           /\ isascii(path)
        THEN [ok |-> TRUE, scheme |-> t[1], host |-> t[3], port |-> port,
              path |-> IF path = <<>> THEN <<"/">> ELSE path]
        ELSE NoParts

\* HTTPRequest.from_stream, lines 350-364: the rule that classifies the line
FormConnectFirst(line) ==
    IF upper(line.method) = "CONNECT" THEN "authority"
    ELSE IF line.target = <<"*">> THEN "asterisk"
    ELSE IF line.target # <<>> /\ Head(line.target) = "/" THEN "origin"
    ELSE "absolute"
Form(line) ==
    IF line.target = <<"*">> THEN "asterisk"
    ELSE IF line.target # <<>> /\ Head(line.target) = "/" THEN "origin"
    ELSE IF upper(line.method) = "CONNECT" THEN "authority"
    ELSE "absolute"

\* what from_stream gives: a request, or the HttpError it raises
Parsed(form_in, method, parts) ==
    [returned |-> TRUE, code |-> 0, form_in |-> form_in, form_out |-> form_in,
     method |-> method, scheme |-> parts.scheme, host |-> parts.host,
     port |-> parts.port, path |-> parts.path]
HttpError400 ==
    [returned |-> FALSE, code |-> 400, form_in |-> "", form_out |-> "", method |-> "",
     scheme |-> "", host |-> "", port |-> 0, path |-> <<>>]

\* HTTPRequest.from_stream, lines 333-379, on a stream that holds the line and
\* headers that read_headers accepts (headers_ok) or not; the body is not modelled
HTTPRequest_from_stream(line, headers_ok) ==
    LET form_in == Form(line)
        parts == IF form_in = "authority" THEN parse_init_connect(line)
                 ELSE IF form_in = "absolute" THEN parse_init_proxy(line)
                 ELSE [NoParts EXCEPT !.ok = TRUE, !.path = line.target]
    IN  IF ~parse_init(line) THEN HttpError400
        ELSE IF form_in = "origin" /\ ~isascii(line.target) THEN HttpError400
        ELSE IF ~parts.ok THEN HttpError400
        ELSE IF ~headers_ok THEN HttpError400
        ELSE Parsed(form_in, line.method, parts)

ParseInit ==
    /\ NoHandler
    /\ heap = Unused
    /\ msg \in {[stage |-> "stream", line |-> l, headers_ok |-> ok,
                  request |-> HttpError400] :
                    l \in RequestLines, ok \in BOOLEAN}

\* HTTPRequest.from_stream(rfile)
parse_request ==
    /\ msg.stage = "stream"
    /\ msg' = [msg EXCEPT !.stage = "parsed",
                          !.request = HTTPRequest_from_stream(msg.line, msg.headers_ok)]
    /\ UNCHANGED <<handler_vars, heap>>

ParseNext == parse_request

ParseSpec == ParseInit /\ [][ParseNext]_vars

(* ----------------------- flows and their children ---------------------- *)
\* HTTPFlow objects that the program assigns to, and the flow _from_state returns
FlowIds == {"f1", "f2"}
RestoredFlow == "restored"
\* HTTPFlow._backrefattr, lines 112 and 773
backrefattr == {"error", "request", "response"}
\* the requests, responses and errors there are to assign, by attribute
Pool == [request |-> {"r1", "r2"}, response |-> {"p1"}, error |-> {"e1"}]
\* the child _from_state makes for attribute key of the restored flow
RestoredChild(key) == "restored." \o key
\* the flow HTTPFlow.copy makes, and the copy it makes of the child it assigns to
\* attribute key of that flow
CopiedFlow == "copied"
CopiedChild(key) == "copied." \o key
AllFlows == FlowIds \cup {RestoredFlow, CopiedFlow}
AllChildren ==
    UNION {Pool[key] : key \in backrefattr}
    \cup {RestoredChild(key) : key \in backrefattr}
    \cup {CopiedChild(key) : key \in backrefattr}

\* HTTPFlow(client_conn, server_conn, None, None, None)
NoChildren == [key \in backrefattr |-> "None"]

\* heap.attrs: each flow's request, response and error; heap.flowptr: each child's
\* attribute `flow` (None after HTTPMessage.__init__, unset in a new Error, which
\* line 78 treats alike); heap.data: what of a child is serialized; heap.exc: the
\* exception the last operation raised; heap.op: the last operation, the flow it
\* was applied to and the flow the assigned child pointed to before
HeapInit ==
    /\ NoHandler
    /\ msg = Unused
    /\ heap = [attrs |-> [f \in AllFlows |-> NoChildren],
               flowptr |-> [x \in AllChildren |-> "None"],
               data |-> [x \in AllChildren |-> x],
               exc |-> "",
               op |-> [name |-> "new", flow |-> "None", owner |-> "None"]]

\* BackreferenceMixin.__setattr__, lines 74-79: the attribute is set, then the
\* backreference is checked and set
BackreferenceMixin_setattr(h, f, key, value) ==
    LET h1 == [h EXCEPT !.attrs[f][key] = value] IN
    IF key \in backrefattr /\ value # "None"
    THEN IF (IF h.flowptr[value] # "None" THEN h.flowptr[value] ELSE f) = f
         THEN [h1 EXCEPT !.flowptr[value] = f]
         ELSE [h1 EXCEPT !.exc = "AssertionError"]
    ELSE h1

\* an assignment flow.key = value of the program; an AssertionError is left to the
\* caller, and the objects live on
setattr ==
    /\ \E f \in FlowIds, key \in backrefattr :
        \E value \in Pool[key] \cup {"None"} :
            heap' = BackreferenceMixin_setattr(
                        [heap EXCEPT !.exc = "",
                                     !.op = [name |-> "setattr", flow |-> f,
                                             owner |-> IF value = "None" THEN "None"
                                                       ELSE heap.flowptr[value]]],
                        f, key, value)
    /\ UNCHANGED <<handler_vars, msg>>

\* SimpleStateObject._get_state of a flow: the state of each child, None for none
get_state(h, f) ==
    [key \in backrefattr |->
        IF h.attrs[f][key] = "None" THEN "None" ELSE h.data[h.attrs[f][key]]]

\* the positional parameters __init__ takes besides self (lines 286-287, 604, 97)
\* and the arguments _from_state passes to it (lines 329, 633)
init_params ==
    [request |-> [min |-> 11, max |-> 12], response |-> [min |-> 7, max |-> 7],
     error |-> [min |-> 1, max |-> 2]]
from_state_args == [request |-> 11, response |-> 8, error |-> 1]
\* cls(...) raises a TypeError unless the arguments fit the parameters
Constructs(key) ==
    /\ from_state_args[key] >= init_params[key].min
    /\ from_state_args[key] <= init_params[key].max

\* HTTPFlow._from_state, lines 784-788, with SimpleStateObject._load_state: a new
\* flow, and for every child of the state a new object made by the _from_state of
\* its class and assigned to the flow's attribute
HTTPFlow_from_state(h, state) ==
    LET fresh == [h EXCEPT !.attrs[RestoredFlow] = NoChildren,
                           !.flowptr = [x \in AllChildren |->
                                            IF x \in {RestoredChild(k) : k \in backrefattr}
                                            THEN "None" ELSE @[x]]]
        present == {key \in backrefattr : state[key] # "None"}
        loaded == [fresh EXCEPT
                        !.attrs[RestoredFlow] =
                            [key \in backrefattr |->
                                IF key \in present THEN RestoredChild(key) ELSE "None"],
                        !.flowptr = [x \in AllChildren |->
                                        IF \E key \in present : x = RestoredChild(key)
                                        THEN RestoredFlow ELSE @[x]],
                        !.data = [x \in AllChildren |->
                                    IF \E key \in present : x = RestoredChild(key)
                                    THEN state[CHOOSE key \in present : x = RestoredChild(key)]
                                    ELSE @[x]]]
    IN  IF \A key \in present : Constructs(key)
        THEN loaded
        ELSE [fresh EXCEPT !.exc = "TypeError"]

\* the flow f is serialized and a flow restored from that state
restore ==
    /\ \E f \in FlowIds :
        heap' = HTTPFlow_from_state(
                    [heap EXCEPT !.exc = "",
                                 !.op = [name |-> "restore", flow |-> f,
                                         owner |-> "None"]],
                    get_state(heap, f))
    /\ UNCHANGED <<handler_vars, msg>>

\* the attribute whose child HTTPFlow.copy copies for attribute key: lines 140-141,
\* 793-794, and 795-796 (`f.response = self.request.copy()`)
CopySource(key) == IF key = "response" THEN "request" ELSE key

\* copy.copy(x) of a child, named y: a new object with the attributes of x, its
\* flow pointer among them (Error.copy lines 105-107, HTTPMessage.copy lines 197-200)
copy_copy(h, x, y) == [h EXCEPT !.flowptr[y] = h.flowptr[x], !.data[y] = h.data[x]]

\* one `if self.key: f.key = self.<source>.copy()` of Flow.copy and HTTPFlow.copy;
\* a statement after an exception is not run, and None has no method copy
CopyChild(h, f, key) ==
    LET x == h.attrs[f][CopySource(key)] IN
    IF h.exc # "" \/ h.attrs[f][key] = "None" THEN h
    ELSE IF x = "None" THEN [h EXCEPT !.exc = "AttributeError"]
    ELSE BackreferenceMixin_setattr(copy_copy(h, x, CopiedChild(key)),
                                    CopiedFlow, key, CopiedChild(key))

\* HTTPFlow.copy, lines 790-796, with Flow.copy, lines 138-142: copy.copy(self)
\* gives a flow with the same children, then error, request and response are
\* replaced by copies.  When a statement raises, no flow is returned: the new flow
\* and the copies made so far are dropped.
HTTPFlow_copy(h, f) ==
    LET fresh == [h EXCEPT !.attrs[CopiedFlow] = NoChildren,
                           !.flowptr = [x \in AllChildren |->
                                            IF x \in {CopiedChild(k) : k \in backrefattr}
                                            THEN "None" ELSE @[x]],
                           !.data = [x \in AllChildren |->
                                        IF x \in {CopiedChild(k) : k \in backrefattr}
                                        THEN x ELSE @[x]]]
        shallow == [fresh EXCEPT !.attrs[CopiedFlow] = h.attrs[f]]
        done == CopyChild(CopyChild(CopyChild(shallow, f, "error"), f, "request"),
                          f, "response")
    IN  IF done.exc = "" THEN done ELSE [fresh EXCEPT !.exc = done.exc]

\* flow f is copied
copy ==
    /\ \E f \in FlowIds :
        heap' = HTTPFlow_copy(
                    [heap EXCEPT !.exc = "",
                                 !.op = [name |-> "copy", flow |-> f, owner |-> "None"]],
                    f)
    /\ UNCHANGED <<handler_vars, msg>>

HeapNext ==
    \/ setattr
    \/ restore
    \/ copy

FlowObjectsSpec == HeapInit /\ [][HeapNext]_vars

(* ------------------------------ properties ----------------------------- *)
Has(e) == \E k \in DOMAIN log : log[k] = e
\* the events of the log that are in the set S, in the log's order
Only(S) == LET In(e) == e \in S IN SelectSeq(log, In)
Count(e) == Len(Only({e}))
IsPrefix(s, t) == Len(s) <= Len(t) /\ \A k \in DOMAIN s : s[k] = t[k]
Range(s) == {s[k] : k \in DOMAIN s}
\* every a of the log comes before every b
AllBefore(a, b) ==
    LET ab == Only({a, b}) IN
    \A k \in 1..(Len(ab) - 1) : ~(ab[k] = b /\ ab[k + 1] = a)
\* what the flow wrote to the server for its own request
RequestWrites == {k \in DOMAIN server_out : server_out[k].what = "request"}
\* the inspector let the request proceed to process_request
Proceeded == request_reply.kind \in {"request", "request_elided"}

\* the six events of a transaction, in the order of handle_flow
Stages ==
    <<"parsed", "ask_request", "server_write", "server_read", "ask_response",
      "client_write">>
StageSet == {Stages[k] : k \in DOMAIN Stages}
Rank(e) ==
    CASE e = "parsed" -> 1
      [] e = "ask_request" -> 2
      [] e = "server_write" -> 3
      [] e = "server_read" -> 4
      [] e = "ask_response" -> 5
      [] e = "client_write" -> 6
\* the event that has to precede event e of a transaction
Needs(e) ==
    IF e = "ask_response"
    THEN (IF request_reply.kind = "Response" THEN "ask_request" ELSE "server_read")
    ELSE Stages[Rank(e) - 1]

\* C1: within one connection the events of a transaction occur only in the order
\* request parsed, `request` ask, request written upstream, response parsed from
\* upstream, `response` ask, response written to the client: a later-listed event
\* never precedes an earlier-listed one (only the upstream write may repeat, for
\* the retry), no event occurs without the one before it (for a Response supplied
\* by the inspector the `response` ask follows the `request` ask), and the loop
\* parses the next request only after the client write of the current flow has
\* completed.  The response is flow.response: the proxy's own `200 Connection
\* established` and its synthetic error response are not among these events.
C1_StrictlySerial ==
    LET st == Only(StageSet) IN
    /\ \A k \in 1..(Len(st) - 1) :
            \/ Rank(st[k]) < Rank(st[k + 1])
            \/ (st[k] = "server_write" /\ st[k + 1] = "server_write")
    /\ \A k \in DOMAIN st :
            st[k] # "parsed" => \E j \in 1..(k - 1) : st[j] = Needs(st[k])
    /\ (pc = "handle_flow" /\ log # <<>>) => Has("client_flush")

\* a second transaction of a keep-alive connection that went through all six stages
C1_Witness ==
    /\ pc = "closed"
    /\ sessions = 1
    /\ consumed = 2
    /\ Only(StageSet) = Stages

\* C2: one call of get_response_from_server writes the request to the server at
\* most twice and calls server_reconnect at most once; the reconnect follows a
\* failed first attempt, the second write follows a reconnect that returned and
\* sends the same request; after a first disconnect the reconnect has been called
\* exactly once and, when it returned, the request was sent again; a second
\* disconnect is propagated to handle_flow with no further reconnect or send.
C2_ReconnectBound ==
    /\ Count("server_write") <= 2
    /\ Count("server_reconnect") <= 1
    /\ Cardinality(RequestWrites) = Count("server_write")
    /\ IsPrefix(Only({"server_write", "server_error", "server_reconnect", "reconnected"}),
                <<"server_write", "server_error", "server_reconnect", "reconnected",
                  "server_write", "server_error">>)
    /\ \A j, k \in RequestWrites :
            /\ server_out[j].form = server_out[k].form
            /\ server_out[j].target = server_out[k].target
    /\ (Has("server_error") /\ pc # "reconnect") => Count("server_reconnect") = 1
    /\ (Has("reconnected") /\ pc # "send") => Count("server_write") = 2
    /\ Count("server_error") = 2
        => /\ Count("server_write") = 2
           /\ Count("server_reconnect") = 1
           /\ pc \in {"except", "return", "closed"}
           /\ pc = "except" => exc.type \in Retried
           /\ pc # "except" => (flow.error.set /\ flow.error.code = 502)

\* both attempts failed with a disconnect and the error reached the flow
C2_Witness ==
    /\ Count("server_error") = 2
    /\ Count("server_write") = 2
    /\ flow.error.set

C4_Killed ==
    LET killed_request == request_reply.kind \in {"None", "KILL"}
        killed_response == response_reply \in {"None", "KILL"}
    IN  /\ (killed_request \/ killed_response)
            => /\ pc \in {"return", "closed"}
               /\ ~result
               /\ pc = "closed" => c.close
               /\ client_out = <<>>
               /\ ~Has("send_error")
        /\ killed_request
            => /\ server_out = <<>>
               /\ ~Has("establish")
               /\ ~Has("process_request")
               /\ [c EXCEPT !.close = c0.close] = c0

\* the response from upstream was dropped by the inspector and the connection closed
C4_Witness ==
    /\ response_reply \in {"None", "KILL"}
    /\ Has("server_read")
    /\ pc = "closed"
    /\ c.close

\* the events of a CONNECT answered by the proxy itself, in the order of
\* process_request and ssl_upgrade
DirectConnect ==
    <<"establish", "client_write_200", "client_flush_200", "ssl_upgrade",
      "mode_transparent", "establish_ssl_both">>
\* the reply process_request writes to the client for such a CONNECT
Established == [kind |-> "established", code |-> 200, src |-> "proxy", headers |-> ""]
UpgradeEvents ==
    {"establish", "client_write_200", "client_flush_200", "ssl_upgrade",
     "mode_transparent", "establish_ssl_both", "establish_ssl_server",
     "establish_ssl_client", "hook_installed", "client_write", "client_flush",
     "server_write", "server_read", "ask_response"}

\* C5: for a CONNECT in regular mode without forward proxy, on a client connection
\* without TLS, that the inspector lets proceed: the server connection to
\* (host, port) is established first, then the `200 Connection established` message
\* and nothing else is written and flushed to the client, then the mode becomes
\* transparent and TLS is established on both sides, and the handler is left by
\* ConnectionTypeChange (or, when one of these steps fails, by the error);
\* the request is never written upstream and `response` is never asked.
C5_ConnectDirect ==
    (/\ parsed.form_in = "authority"
     /\ c0.mode = "regular"
     /\ ~config.forward_proxy
     /\ ~c0.client_ssl
     /\ Proceeded)
        => /\ IsPrefix(Only(UpgradeEvents), DirectConnect)
           /\ server_out = <<>>
           /\ Has("client_flush_200") => (client_out # <<>> /\ client_out[1] = Established)
           /\ \A k \in DOMAIN client_out : client_out[k].kind # "response"
           /\ c.mode = "transparent" <=> Has("mode_transparent")
           /\ pc \in {"process_request", "type_change", "except", "return", "closed"}
           /\ pc \in {"return", "closed"} => flow.error.set
           /\ pc = "type_change"
                => /\ Only(UpgradeEvents) = DirectConnect
                   /\ exc.type = "ConnectionTypeChange"
                   /\ client_out = <<Established>>
                   /\ c.mode = "transparent"
                   /\ c.client_ssl /\ c.server_ssl
                   /\ c.server_addr = parsed.addr
                   /\ c.hooks = c0.hooks

\* the CONNECT was answered by the proxy and the handler left by ConnectionTypeChange
C5_Witness ==
    /\ parsed.form_in = "authority"
    /\ c0.mode = "regular"
    /\ ~config.forward_proxy
    /\ Proceeded
    /\ pc = "type_change"
    /\ client_out = <<Established>>

\* the events of a CONNECT forwarded upstream, from the upstream's answer on
ForwardedConnect ==
    <<"server_read", "ask_response", "client_write", "client_flush", "ssl_upgrade",
      "mode_transparent", "establish_ssl_both", "hook_installed">>

\* C6: for a CONNECT with a forward proxy configured that the inspector lets
\* proceed, the proxy does not write its own `200 Connection established`; the
\* CONNECT is written upstream in authority form; the upstream's response is passed
\* to the inspector, then written to the client, and only after that client write
\* is TLS established on both sides and ConnectionTypeChange raised.
C6_ConnectForwarded ==
    (/\ parsed.form_in = "authority"
     /\ config.forward_proxy
     /\ Proceeded)
        => /\ ~Has("client_write_200")
           /\ \A k \in DOMAIN client_out : client_out[k] # Established
           /\ \A k \in RequestWrites :
                /\ server_out[k].form = "authority"
                /\ server_out[k].target = parsed.addr
           /\ ~Has("establish")
           /\ IsPrefix(Only(Range(ForwardedConnect)), ForwardedConnect)
           /\ Has("server_read") => Has("server_write")
           /\ Has("ssl_upgrade")
                => /\ client_out # <<>>
                   /\ client_out[1] =
                        [kind |-> "response", code |-> flow.response.code,
                         src |-> "upstream", headers |-> ""]
           /\ c.mode # c0.mode => Has("client_flush")
           /\ pc = "type_change"
                => /\ Only(Range(ForwardedConnect)) = ForwardedConnect
                   /\ exc.type = "ConnectionTypeChange"
                   /\ Len(client_out) = 1
                   /\ c.client_ssl /\ c.server_ssl

\* the forwarded CONNECT was answered and the connection upgraded
C6_Witness ==
    /\ parsed.form_in = "authority"
    /\ config.forward_proxy
    /\ Proceeded
    /\ pc = "type_change"
    /\ Has("server_write")
    /\ Len(client_out) = 1

\* the steps of the hooked reconnect, in the order of reconnect_http_proxy
HookedReconnect ==
    <<"hooked_reconnect", "reconnect_no_ssl", "hook_write", "hook_flush", "hook_read",
      "establish_ssl_server">>

\* C7: once ssl_upgrade has installed the replacement reconnect, a call of
\* c.server_reconnect runs the hook, whose steps are, in this order and as far as
\* none of them fails: the original reconnect with SSL disabled, the write and
\* flush of the recorded CONNECT request, the read of the upstream's response;
\* TLS with the server is established if and only if that response has status 200,
\* and after it was read; on another status a proxy error is raised and the server
\* connection is left without TLS.
C7_HookedReconnect ==
    /\ (Has("server_reconnect") /\ c0.hooks # <<>>)
        => /\ Has("hooked_reconnect")
           /\ ~Has("reconnect")
    /\ Has("hooked_reconnect")
        => /\ c0.hooks # <<>>
           /\ IsPrefix(Only(Range(HookedReconnect) \cup {"reconnect"}), HookedReconnect)
           /\ \A k \in DOMAIN server_out :
                server_out[k].what = "connect"
                    => /\ server_out[k].form = "authority"
                       /\ server_out[k].target = c0.hooks[1].addr
    /\ Has("establish_ssl_server") <=> hook_resp = 200
    /\ hook_resp \notin {0, 200}
        => /\ ~c.server_ssl
           /\ pc = "except" => exc.type = "ProxyError"
           /\ pc # "except" => flow.error.set
           /\ pc \in {"except", "return", "closed"}

\* the hooked reconnect got its 200, set up TLS and the request was sent again
C7_Witness ==
    /\ Only(Range(HookedReconnect)) = HookedReconnect
    /\ hook_resp = 200
    /\ Count("server_write") = 2

\* C8: when the upstream proxy answers the replayed CONNECT with a status other
\* than 200, the proxy error the hooked reconnect raises has status code 502, and
\* so have the error recorded on the flow and the synthetic response sent to the
\* client.
C8_HookError502 ==
    hook_resp \notin {0, 200}
        => /\ exc.type = "ProxyError" => exc.code = 502
           /\ flow.error.set => flow.error.code = 502
           /\ \A k \in DOMAIN client_out :
                client_out[k].kind = "error" => client_out[k].code = 502

\* C9: an authority-form request that arrives on a client connection with TLS
\* established is rejected with an HTTP error 502 (unless the inspector drops the
\* connection): no server connection is established, no `200 Connection
\* established` is written, the CONNECT is not forwarded upstream, and no TLS
\* upgrade and no installation of the reconnect hook take place.
C9_NoConnectOverTLS ==
    (parsed.form_in = "authority" /\ c0.client_ssl)
        => /\ ~Has("establish")
           /\ ~Has("client_write_200")
           /\ server_out = <<>>
           /\ ~Has("ssl_upgrade")
           /\ ~Has("hook_installed")
           /\ c.hooks = c0.hooks
           /\ (pc \in {"return", "closed"}
               /\ request_reply.kind \notin {"None", "KILL"}
               /\ response_reply \notin {"None", "KILL"})
                => (flow.error.set /\ flow.error.code = 502)

\* process_request has returned for the flow's request
Processed ==
    \/ pc \in {"get_response", "send", "reconnect"}
    \/ Has("server_write")

\* C10: in regular mode without forward proxy, for an absolute-form request with
\* scheme http, process_request sets form_out to origin and leaves form_in
\* absolute; it establishes the server connection when there is none or when the
\* current one targets another address, and leaves it alone when it targets
\* (request.host, request.port); whenever the request is written upstream, the
\* server connection's address is (request.host, request.port).
C10_AbsoluteRewrite ==
    (/\ parsed.form_in = "absolute"
     /\ parsed.scheme = "http"
     /\ c0.mode = "regular"
     /\ ~config.forward_proxy)
        => /\ flow.request.form_in = "absolute"
           /\ flow.request.addr = parsed.addr
           /\ ~Has("process_request") => flow.request.form_out = "absolute"
           /\ Processed
                => /\ flow.request.form_out = "origin"
                   /\ Has("establish") <=> c0.server_addr # parsed.addr
                   /\ Count("establish") <= 1
                   /\ c.server_addr = parsed.addr
           /\ \A k \in RequestWrites :
                /\ server_out[k].to = parsed.addr
                /\ server_out[k].form = "origin"

\* the second request of a keep-alive connection names another host than the first
C10_Witness ==
    /\ parsed.form_in = "absolute"
    /\ parsed.scheme = "http"
    /\ c0.mode = "regular"
    /\ ~config.forward_proxy
    /\ consumed = 2
    /\ c0.server_addr \in Addrs
    /\ c0.server_addr.host # parsed.addr.host
    /\ Has("server_write")
    /\ pc = "ask_response"

\* the requests process_request has to reject in regular mode, lines 979-991
InvalidInRegularMode ==
    /\ c0.mode = "regular"
    /\ \/ parsed.form_in \in {"origin", "asterisk"}
       \/ (parsed.form_in = "absolute" /\ parsed.scheme # "http")
\* process_request has been called and has ended
AfterProcessRequest == Has("process_request") /\ pc # "process_request"
\* the error e is the one propagating to, or recorded by, handle_flow's except clause
Rejected(type, code) ==
    /\ pc \in {"except", "return", "closed"}
    /\ pc = "except" => (exc.type = type /\ ErrorCode(exc) = code)
    /\ pc # "except" => flow.error = [set |-> TRUE, code |-> code, type |-> type]
\* nothing was established and nothing written upstream
NoUpstream ==
    /\ ~Has("establish")
    /\ ~Has("server_reconnect")
    /\ server_out = <<>>
    /\ c.server_addr = c0.server_addr

\* C11 (as stated): in regular mode process_request rejects with HTTP error 400
\* every request in origin or asterisk form and every absolute-form request whose
\* scheme is not http, with or without forward proxy, and establishes no server
\* connection and writes nothing upstream.
C11_AlwaysRejects400 ==
    (InvalidInRegularMode /\ AfterProcessRequest)
        => (Rejected("HttpError", 400) /\ NoUpstream)

\* C11 (amended): in regular mode process_request rejects every request in origin
\* or asterisk form and every absolute-form request whose scheme is not http, with
\* or without forward proxy: with HTTP error 400 when no authenticator is
\* configured or the request passes authentication, and with the authentication
\* error (407) when it does not; in each case no server connection is established
\* and nothing is written upstream.
C11_Rejects400 ==
    (InvalidInRegularMode /\ AfterProcessRequest)
        => /\ NoUpstream
           /\ Has("auth_failed") => Rejected("HttpAuthenticationError", 407)
           /\ ~Has("auth_failed") => Rejected("HttpError", 400)

\* an https absolute-form request with a forward proxy was answered with a 400
C11_Witness ==
    /\ InvalidInRegularMode
    /\ parsed.form_in = "absolute"
    /\ config.forward_proxy
    /\ flow.error.code = 400
    /\ Len(client_out) = 1
    /\ client_out[1].code = 400

\* what is written upstream for an origin-form request that is passed through
PassedThrough ==
    \A k \in RequestWrites :
        /\ server_out[k].form = "origin"
        /\ server_out[k].headers.host = parsed.headers.host
        /\ server_out[k].headers.proxy_connection = ""
\* process_request let the request through to the upstream exchange
LetThrough ==
    \/ Has("server_write")
    \/ pc \in {"get_response", "send"}
    \/ (pc = "crashed" /\ flow.request.elided)

\* C12 (as stated): in regular mode without forward proxy an origin-form request
\* that the inspector lets proceed is passed through to the upstream exchange and
\* written upstream with an origin-form first line, its Host header preserved and
\* Proxy-Connection absent.
C12_OriginPassthroughRegular ==
    (/\ parsed.form_in = "origin"
     /\ c0.mode = "regular"
     /\ ~config.forward_proxy
     /\ Proceeded
     /\ AfterProcessRequest)
        => (LetThrough /\ PassedThrough)

\* C12 (amended): in transparent mode an origin-form request with a Host header
\* that the inspector lets proceed is passed through: process_request neither
\* rejects it nor touches the server connection, and whenever it is written
\* upstream it has an origin-form first line, its Host header as the client sent
\* it and no Proxy-Connection header.
C12_OriginPassthrough ==
    (/\ parsed.form_in = "origin"
     /\ parsed.headers.host # ""
     /\ c0.mode = "transparent"
     /\ Proceeded
     /\ AfterProcessRequest)
        => /\ LetThrough
           /\ PassedThrough
           /\ flow.request.form_out = "origin"
           /\ ~Has("establish")
           /\ \A k \in DOMAIN server_out : server_out[k].to = c0.server_addr

\* an origin-form request with Host and Proxy-Connection was sent on and answered
C12_Witness ==
    /\ parsed.form_in = "origin"
    /\ parsed.headers.host # ""
    /\ parsed.headers.proxy_connection # ""
    /\ c0.mode = "transparent"
    /\ Len(server_out) = 1
    /\ Has("server_read")

\* the event of the log that directly follows the first event e
Following(e) ==
    LET k == CHOOSE j \in DOMAIN log : log[j] = e /\ \A h \in 1..(j - 1) : log[h] # e
    IN  IF k < Len(log) THEN log[k + 1] ELSE "none"
\* the synthetic response to a failed authentication
Challenge407 ==
    [kind |-> "error", code |-> 407, src |-> "proxy", headers |-> AuthChallenge]

\* C13: in regular mode with an authenticator configured the authenticator's
\* verdict is the first thing process_request obtains, before any other check or
\* side effect; after a failed authentication nothing is written upstream, no
\* server connection is established, the connection context is left as it was,
\* and the only thing written to the client is a synthetic 407 response with the
\* authenticator's challenge headers (written unless the client is gone); in
\* another mode, or without authenticator, the authenticator is never consulted.
C13_AuthenticateFirst ==
    /\ (Has("authenticated") \/ Has("auth_failed"))
        => (c0.mode = "regular" /\ config.authenticator)
    /\ (c0.mode = "regular" /\ config.authenticator /\ Has("process_request"))
        => Following("process_request") \in {"authenticated", "auth_failed"}
    /\ Has("auth_failed")
        => /\ NoUpstream
           /\ [c EXCEPT !.close = c0.close] = c0
           /\ Rejected("HttpAuthenticationError", 407)
           /\ pc = "except" => (exc.headers = AuthChallenge /\ client_out = <<>>)
           /\ pc # "except"
                => /\ Has("send_error")
                   /\ client_out =
                        IF Has("send_error_failed") THEN <<>> ELSE <<Challenge407>>

\* an unauthenticated request was answered with the 407 and the connection closed
C13_Witness ==
    /\ Has("auth_failed")
    /\ client_out = <<Challenge407>>
    /\ pc = "closed"

\* the code of the synthetic response for the error e, as the claim states it
ExpectedCode(e) ==
    IF e.type = "HttpAuthenticationError" THEN 407
    ELSE IF e.type \in {"NetLibError", "NetLibDisconnect"} THEN 502
    ELSE e.code
ErrorEvents == {"flow_error", "ask_error", "send_error", "send_error_failed"}
\* the except clause of handle_flow runs in this step
Catches == pc = "except" /\ pc' # "except"

\* C14: what reaches handle_flow's except clause is an authentication, HTTP, proxy
\* or transport error of a flow without error; handling it sets flow.error, then
\* asks the inspector `error` once, then attempts one synthetic response to the
\* client, with code 407 for an authentication error, the error's own code for an
\* HTTP or proxy error and 502 for a transport error; a failure of that write
\* changes nothing else; handle_flow returns false and the loop ends with c.close
\* set, nothing more being asked or written.
C14_HandleError ==
    [][/\ pc = "except"
            => /\ exc.type \in Caught
               /\ ~flow.error.set
               /\ Only(ErrorEvents) = <<>>
       /\ Catches
            => /\ flow'.error.set
               /\ flow'.error.code = ExpectedCode(exc)
               /\ flow'.request = flow.request /\ flow'.response = flow.response
               /\ \/ /\ log' = log \o <<"flow_error", "ask_error", "send_error">>
                     /\ client_out' =
                            Append(client_out,
                                   [kind |-> "error", code |-> ExpectedCode(exc),
                                    src |-> "proxy", headers |-> exc.headers])
                  \/ /\ log' = log \o <<"flow_error", "ask_error", "send_error",
                                         "send_error_failed">>
                     /\ client_out' = client_out
               /\ server_out' = server_out
               /\ c' = c
               /\ pc' = "return"
               /\ ~result'
       /\ (flow.error.set /\ pc = "return")
            => /\ pc' = "closed"
               /\ c'.close
               /\ log' = log /\ client_out' = client_out /\ flow' = flow
     ]_vars

\* both upstream attempts ended in a disconnect, the client got a 502 and the loop
\* ended
C14_Witness ==
    /\ Count("server_error") = 2
    /\ flow.error = [set |-> TRUE, code |-> 502, type |-> "NetLibDisconnect"]
    /\ client_out = <<[kind |-> "error", code |-> 502, src |-> "proxy", headers |-> ""]>>
    /\ pc = "closed"
    /\ c.close

\* C15: when the client stream is at EOF where a request should start (also after
\* one blank line, also after a completed keep-alive transaction), the loop ends
\* cleanly: no error is recorded on a flow, the inspector is not asked anything
\* and nothing is written to the client.
C15_CleanEOF ==
    Has("eof")
        => /\ ~flow.error.set
           /\ ~Has("ask_error")
           /\ ~Has("ask_request")
           /\ ~Has("send_error")
           /\ client_out = <<>>

\* C16: every failure while a flow is handled (parsing, process_request, upstream
\* exchange, assembly of a message, also one whose content is CONTENT_MISSING,
\* client write) is caught by handle_flow and recorded as flow.error: no failure
\* leaves handle_flow without flow.error being set.
C16_AllCaught ==
    /\ (exc # NoExc /\ exc.type # "ConnectionTypeChange") => pc = "except"
    /\ pc = "crashed" => (flow.error.set /\ Has("ask_error"))

\* C17: after any sequence of assignments to the request, response and error
\* attributes of HTTPFlow objects, whenever a flow's request, response or error is
\* not None, that child's flow pointer refers to this flow; and an assignment of a
\* child that already belongs to a different flow fails.
C17_Backreference ==
    /\ \A f \in FlowIds, key \in backrefattr :
            heap.attrs[f][key] # "None" => heap.flowptr[heap.attrs[f][key]] = f
    /\ (heap.op.name = "setattr" /\ heap.op.owner \notin {"None", heap.op.flow})
        => heap.exc = "AssertionError"

\* C18: for a message whose Content-Encoding is gzip, deflate or identity and whose
\* content is a string of bytes (validly encoded, not decodable, or empty),
\* entering the decoded bracket and leaving it without mutation leaves the content
\* and the Content-Encoding header as they were before.
C18_BracketIdentity ==
    (/\ msg.stage = "exited"
     /\ msg.before.headers.content_encoding \in ENCODINGS
     /\ msg.before.content.kind = "bytes")
        => /\ msg.exc = ""
           /\ msg.content = msg.before.content
           /\ msg.headers = msg.before.headers

\* C19: whenever _assemble succeeds on a request or a response, whatever the stored
\* headers and content, a Content-Length header of the output states the length
\* of the emitted body, and the output has Content-Length 0 when the message
\* carried Transfer-Encoding and has no content.
C19_ContentLength ==
    msg.stage = "assembled"
        => /\ msg.out.headers.content_length # ""
                => msg.out.headers.content_length = ToString(Len(msg.out.body))
           /\ (msg.headers.transfer_encoding # "" /\ ~Present(msg.content))
                => msg.out.headers.content_length = "0"

\* C20: for every HTTPFlow, with or without request, response and error,
\* serializing it and restoring a flow from that state succeeds, the restored flow
\* serializes to the same state, and each restored child's flow pointer refers to
\* the restored flow.
C20_StateRoundTrip ==
    heap.op.name = "restore"
        => /\ heap.exc = ""
           /\ get_state(heap, RestoredFlow) = get_state(heap, heap.op.flow)
           /\ \A key \in backrefattr :
                /\ heap.attrs[RestoredFlow][key] = "None"
                        <=> heap.attrs[heap.op.flow][key] = "None"
                /\ heap.attrs[RestoredFlow][key] # "None"
                        => heap.flowptr[heap.attrs[RestoredFlow][key]] = RestoredFlow

\* C21: HTTPFlow.copy on a flow that has a request, a response or an error succeeds
\* and returns a new flow that has a child exactly where the original has one, each
\* a new object holding what the original's child of the same attribute holds (the
\* response a copy of the response, not of the request) and pointing to the new
\* flow, while the original's children still point to the original flow.
C21_Copy ==
    (/\ heap.op.name = "copy"
     /\ \A key \in backrefattr :
            heap.attrs[heap.op.flow][key] # "None"
                => heap.flowptr[heap.attrs[heap.op.flow][key]] = heap.op.flow)
        => /\ heap.exc = ""
           /\ \A key \in backrefattr :
                LET x == heap.attrs[heap.op.flow][key]
                    y == heap.attrs[CopiedFlow][key]
                IN  /\ y = "None" <=> x = "None"
                    /\ y # "None" => /\ y # x
                                     /\ heap.data[y] = heap.data[x]
                                     /\ heap.flowptr[y] = CopiedFlow

\* the request line's target is `*`, or starts with `/`
IsAsterisk(line) == line.target = <<"*">>
StartsWithSlash(line) == line.target # <<>> /\ Head(line.target) = "/"
IsConnect(line) == upper(line.method) = "CONNECT"

\* C22: request parsing classifies the request line by the first matching rule:
\* target `*` gives asterisk; a target starting with `/` gives origin, and 400 if it
\* is not ASCII; a method CONNECT in any case gives authority with host and port
\* set and no path; anything else gives absolute with scheme, host, port and path
\* set.  So a CONNECT whose target is `*` or starts with `/` is not authority-form.
\* form_out of the parsed request equals form_in, and a line that its rule cannot
\* parse, or invalid headers, give HTTP error 400 instead of a request.
C22_Classification ==
    msg.stage = "parsed" =>
        LET l == msg.line
            r == msg.request
        IN  /\ r.returned =>
                    /\ r.form_out = r.form_in
                    /\ r.form_in \in {"asterisk", "origin", "authority", "absolute"}
                    /\ (IsAsterisk(l) <=> r.form_in = "asterisk")
                    /\ (StartsWithSlash(l) <=> r.form_in = "origin")
                    /\ ((IsConnect(l) /\ ~IsAsterisk(l) /\ ~StartsWithSlash(l))
                            <=> r.form_in = "authority")
                    /\ (r.form_in = "origin" => isascii(l.target))
                    /\ (r.form_in = "authority"
                            => r.host # "" /\ r.port # 0 /\ r.path = <<>>)
                    /\ (r.form_in = "absolute"
                            => r.scheme # "" /\ r.host # "" /\ r.port # 0 /\ r.path # <<>>)
            /\ ~r.returned => r.code = 400
            /\ (StartsWithSlash(l) /\ ~isascii(l.target)) => ~r.returned
            /\ (l.version # "" /\ msg.headers_ok
                    /\ (IsAsterisk(l) \/ (StartsWithSlash(l) /\ isascii(l.target))))
                    => r.returned

\* a CONNECT whose target is `*`, and one whose target starts with `/`, was parsed
\* and is not authority-form
C22_Witness ==
    /\ msg.stage = "parsed"
    /\ msg.request.returned
    /\ IsConnect(msg.line)
    /\ StartsWithSlash(msg.line)
    /\ msg.request.form_in = "origin"

\* the request or the response of the flow signals connection close
SignalsClose == flow.request.close \/ flow.response.close
\* handle_flow has returned true, and the loop has not gone on yet or has
Continues == pc \in {"return", "handle_flow"} /\ result /\ Has("parsed")
\* the response of the flow was written and flushed to the client
Flushed == Has("client_flush")
\* handle_flow returns true only after the flush of a response, with neither side
\* signalling close and a request that is not authority-form
ContinuesOnlyIf ==
    Continues => Flushed /\ ~SignalsClose /\ flow.request.form_in # "authority"
\* an authority-form transaction written to the client with neither side signalling
\* close goes into ssl_upgrade and leaves by the ConnectionTypeChange, or by the
\* error of a failed TLS handshake, never by a true return
AuthorityUpgrades ==
    (Flushed /\ ~SignalsClose /\ flow.request.form_in = "authority")
        => /\ Has("ssl_upgrade")
           /\ pc \in {"type_change", "except", "return", "closed"}
           /\ pc = "type_change" => Has("establish_ssl_both")
           /\ pc \in {"except", "return", "closed"}
                => ~Has("hook_installed") /\ (pc = "except" \/ (flow.error.set /\ ~result))

\* C23 as stated: handle_flow returns true only if a response was written and
\* flushed, neither side signals close and the request is not authority-form; when
\* either side signals close there is no TLS upgrade, even for an authority-form
\* request; when neither does, an authority-form transaction ends with the TLS
\* upgrade, never with another loop iteration.
C23_CloseNeverUpgrades ==
    /\ ContinuesOnlyIf
    /\ SignalsClose => ~Has("ssl_upgrade")
    /\ AuthorityUpgrades

\* C23, amended: as above, with the middle part for the flows whose response
\* handle_flow has written to the client: when either side signals close, the loop
\* ends with handle_flow returning false and without any TLS upgrade, even for an
\* authority-form request.  (The direct CONNECT, which process_request answers, is
\* upgraded whatever its connection-close.)
C23_LoopContinue ==
    /\ ContinuesOnlyIf
    /\ (Flushed /\ SignalsClose)
            => ~Has("ssl_upgrade") /\ pc \in {"return", "closed"} /\ ~result
    /\ AuthorityUpgrades

\* an authority-form request whose response was written to the client with a
\* connection close: the loop has ended, and no TLS upgrade took place
C23_Witness ==
    /\ pc = "closed"
    /\ Flushed
    /\ SignalsClose
    /\ flow.request.form_in = "authority"
    /\ ~Has("ssl_upgrade")

\* the headers _assemble_headers of a request takes out of what it emits
HopByHop == {"proxy_connection", "keep_alive", "connection", "transfer_encoding"}

\* C24: assembling a request removes Proxy-Connection, Keep-Alive, Connection and
\* Transfer-Encoding from the emitted header block only: the request's own header
\* map, its content and its form are after _assemble what they were before, so the
\* Connection header that the connection-close test reads is still the one the
\* request had; and assembling the same request twice gives the same output.
C24_AssembleFrame ==
    (msg.kind = "request" /\ msg.stage = "assembled")
        => /\ \A k \in HopByHop : msg.out.headers[k] = ""
           /\ msg.headers = msg.pre.headers
           /\ msg.content = msg.pre.content
           /\ msg.form_out = msg.pre.form_out
           /\ msg.headers.connection = msg.pre.headers.connection
           /\ \A j, k \in DOMAIN msg.outs : msg.outs[j] = msg.outs[k]

\* a request with all four headers was assembled twice
C24_Witness ==
    /\ msg.kind = "request"
    /\ msg.stage = "assembled"
    /\ Len(msg.outs) = 2
    /\ \A k \in HopByHop : msg.pre.headers[k] # ""
    /\ msg.headers.connection = "close"
    /\ msg.out.headers.connection = ""

\* C25: the replacement server_reconnect that replays the CONNECT is installed only
\* in the upstream-proxy variant: only when a forward proxy is configured and the
\* flow's CONNECT was written to the upstream; not when the inspector answered the
\* CONNECT with a Response, nor without a forward proxy, nor in the direct CONNECT.
C25_HookOnlyUpstream ==
    Has("hook_installed")
        => /\ config.forward_proxy
           /\ RequestWrites # {}
           /\ request_reply.kind # "Response"
           /\ ~Has("client_write_200")

\* C26: handle_messages ends in exactly one of two ways: handle_flow returned
\* false and c.close has been set, or the ConnectionTypeChange leaves
\* handle_messages with c.close not set and c.mode transparent; and it goes on to
\* another iteration only after a request was parsed from the client stream.
C26_TerminatesTwoWays ==
    /\ pc \in {"closed", "type_change", "crashed"}
        => \/ pc = "closed" /\ ~result /\ c.close
           \/ pc = "type_change" /\ ~c.close /\ c.mode = "transparent"
    /\ (pc = "handle_flow" /\ result) => Has("parsed")

\* C27: after a CONNECT that was forwarded upstream, the TLS upgrade is triggered
\* only if the response to that CONNECT has status 200: a CONNECT answered with
\* another status leads neither to establish_ssl nor to the ConnectionTypeChange.
C27_UpgradeOnly200 ==
    (/\ flow.request.form_in = "authority"
     /\ RequestWrites # {}
     /\ flow.response.src = "upstream"
     /\ flow.response.code # 200)
        => /\ ~Has("ssl_upgrade")
           /\ ~Has("establish_ssl_both")
           /\ pc # "type_change"

\* the asks of the current flow, in order
Asks == Only({"ask_request", "ask_response", "ask_error"})
AskRank(e) == IF e = "ask_request" THEN 1 ELSE IF e = "ask_response" THEN 2 ELSE 3

\* C28: for each flow the inspector is asked at most once per topic, in the order
\* `request`, `response`, `error`; `response` is asked only after a `request` ask of
\* the flow was answered with something other than None or KILL; `error` is the
\* last ask of a flow, and after it handle_flow returns false and the connection is
\* closed, so nothing further is asked; a flow has both a response and an error
\* only when the error came after the response was there.
C28_AskOrder ==
    /\ \A k \in 1..(Len(Asks) - 1) : AskRank(Asks[k]) < AskRank(Asks[k + 1])
    /\ Has("ask_response")
        => Has("ask_request") /\ request_reply.kind \notin {"none", "None", "KILL"}
    /\ Has("ask_error")
        => /\ Asks[Len(Asks)] = "ask_error"
           /\ flow.error.set
           /\ pc \in {"return", "closed"}
           /\ ~result
    /\ flow.error.set => pc \in {"except", "return", "closed"} \/ Has("ask_error")
    /\ (flow.error.set /\ flow.response # NoResponse /\ Has("ask_response"))
        => AllBefore("ask_response", "flow_error")

\* the client write failed after the `response` ask: the flow has a response and an
\* error, and the inspector was asked request, response, error
C28_Witness ==
    /\ pc = "closed"
    /\ Asks = <<"ask_request", "ask_response", "ask_error">>
    /\ flow.response # NoResponse
    /\ flow.error.set
    /\ Has("client_write")
    /\ ~Has("client_flush")

\* the places of event e in the log
Places(e) == {k \in DOMAIN log : log[k] = e}
\* the first attempt wrote and flushed the whole request, and then met a disconnect
FlushedThenDisconnected ==
    \E k \in Places("server_error") :
        /\ k > 2
        /\ log[k - 1] = "server_flush"
        /\ log[k - 2] = "server_write"
        /\ \A j \in Places("server_write") : j >= k - 2

\* C29: a disconnect at any point of the first attempt of get_response_from_server
\* (write, flush or read) is followed by server_reconnect, so a disconnect leaves
\* the exchange only from the second attempt; and a request that the first
\* attempt had written and flushed is written a second time, the same, once the
\* reconnect has returned.
C29_RetryAnyPoint ==
    /\ \A k \in Places("server_error") :
            (\A j \in Places("server_error") : j >= k)
                => IF k = Len(log) THEN pc = "reconnect"
                   ELSE log[k + 1] = "server_reconnect"
    /\ (/\ pc = "except"
        /\ exc.type \in Retried
        /\ log # <<>>
        /\ log[Len(log)] \in {"server_write", "server_flush", "server_error"})
            => Count("server_write") = 2 /\ Has("reconnected")
    /\ (FlushedThenDisconnected /\ Has("reconnected") /\ pc # "send")
            => /\ Cardinality(RequestWrites) = 2
               /\ \A j, k \in RequestWrites :
                    /\ server_out[j].form = server_out[k].form
                    /\ server_out[j].target = server_out[k].target
                    /\ server_out[j].headers = server_out[k].headers

\* the first attempt was written and flushed and ended in a disconnect; the request
\* was written again after the reconnect and answered
C29_Witness ==
    /\ FlushedThenDisconnected
    /\ Has("reconnected")
    /\ Count("server_write") = 2
    /\ Has("server_read")
    /\ flow.response.src = "upstream"

====
